---- MODULE Spec2Model ----
(***************************************************************************)
(* A model of the sigma framework: the component (state map, template,     *)
(* update callback, one mutex), the dispatcher (route table, component     *)
(* registry, one mutex), the update handler and the SSE push handler.      *)
(* Every request or API call is run by a task (a goroutine); a task's      *)
(* position is pc[t] and its suspended callers are stack[t].               *)
(***************************************************************************)
EXTENDS Integers, Sequences, FiniteSets, TLC

\* ------------------------------------------------------------ bounds
\* Every request or API call is one task; this many run in a behaviour.
NumTasks == 2
\* Registration calls the main goroutine makes before it serves.
MaxRegs == 3
\* Ticks the ticker of one push stream fires.
MaxTicks == 2

\* ------------------------------------------------------------ universe
Tasks == 1 .. NumTasks
\* The main goroutine, which registers and then serves (main.go:11-58).
Main == 0
AllTasks == Tasks \cup {Main}
Comps == {"cA", "cB", "cC", "cD", "cE", "cF", "cG"}
\* The components requests and API calls work on.
Apps == {"cA", "cB"}
\* The components Render is called on directly.
RenderComps == {"cF", "cD", "cE"}
\* The components a push stream is bound to.
StreamComps == {"cA", "cD", "cE"}
\* The components whose stream a client reads: the counter and the todo list.
WireComps == {"cA", "cG"}
\* The components the applications register.
Registrable == {"cA", "cB", "cC"}
Names == {"counter", "status", "todo-list"}
Keys == {"name", "Count"}
\* A dynamically typed value (interface{}): an int or a string.
IntV(n) == [kind |-> "int", n |-> n, s |-> ""]
StrV(x) == [kind |-> "string", n |-> 0, s |-> x]
\* Values the API callers pass to SetState: an int and a string.
SetVals == {IntV(1), StrV("status")}
\* A text of two lines with an empty line between them, as a form field can
\* hold, and the values the applications put into a streamed component.
TwoParagraphs == "two\n\nparagraphs"
WireVals == {IntV(1), StrV(TwoParagraphs)}
\* The entry of a key the map does not hold (a nil interface).
NilV == [kind |-> "nil", n |-> 0, s |-> ""]
\* The revisions of the component source: Update without and with the lock.
Revisions == {"part_001", "part_002"}
\* The revisions of Render: part_000 returns what Execute wrote before it
\* failed, the later ones return no markup with the error.
RenderRevisions == Revisions \cup {"part_000"}
\* The value of a mutex nobody holds.
NoTask == -1

VARIABLES
    \* which revision of the component source runs
    rev,
    \* component fields, per component instance
    name, state, template, onUpdate, mu,
    \* ghost, per component: the value of the latest SetState("Count", v) that
    \* has written, or the value the component was constructed with
    written,
    \* tasks: position, suspended callers, receiver, arguments, and locals
    pc, stack, comp, arg, loc, out, err, panicking,
    \* ghost: the state map as it was when the task's Render took the lock
    snap,
    \* the request a task serves and the response it has written
    req, resp,
    \* dispatcher fields: route table, component registry, mutex
    routes, components, sigmaMu,
    \* the server accepts requests (http.ListenAndServe was reached)
    serving,
    \* registration calls the main goroutine may still make
    regs,
    \* ghost: per pair, the handler of the latest Handle call; per declared
    \* name, the component of the latest RegisterComponent call; some Handle
    \* call named a pair that already had another handler
    handled, registered, replaced,
    \* per request: the handlers invoked, the contexts built for it, and the
    \* context its handler was given
    invoked, ctxs, ctx,
    \* push stream, per task: the request's Done channel is closed, ticks
    \* buffered in ticker.C, the ticker, Stop calls, frames written, flushes
    cancelled, tickC, ticker, stops, frames, flushed,
    \* ghost: ticks fired, ticks taken and frames written after the cancel
    fired, lateTicks, lateFrames, quiet,
    \* the process died (a fatal error, or a panic nothing recovered)
    crashed

compVars == <<rev, name, state, template, onUpdate, written, mu>>
taskVars == <<pc, stack, comp, arg, loc, out, err, panicking, snap>>
routerVars == <<routes, components, sigmaMu, serving, regs, handled, registered,
               replaced, invoked, ctxs, ctx>>
sseVars == <<cancelled, tickC, ticker, stops, frames, flushed, fired, lateTicks, lateFrames, quiet>>
runVars == <<req, resp, crashed>>
vars == <<compVars, taskVars, routerVars, sseVars, runVars>>

NoHandler == "none"
\* The handlers the applications register: two page handlers.
HandlerIds == {"h1", "h2"}
NoArg == [key |-> "name", val |-> IntV(0), method |-> "", path |-> "",
          handler |-> NoHandler]
\* A response writer: nothing written yet; flusher: it is an http.Flusher.
NoResp == [status |-> 0, body |-> <<>>, flusher |-> TRUE]
\* A task that calls the API directly serves no request.
NoReq == [method |-> "", path |-> ""]
Methods == {"GET", "POST"}
\* The methods of the requests that reach an update handler.
UpdateMethods == Methods \cup {"PUT"}
Paths == {"/", "/update"}
NoComp == "none"

\* ------------------------------------------------------------ component
\* NewComponent: the name is mirrored into the state under the key "name".
NewComponent(n, tmpl, initialState, cb) ==
    [name |-> n, state |-> [initialState EXCEPT !["name"] = StrV(n)],
     template |-> tmpl, onUpdate |-> cb]

\* sync.Mutex: Lock blocks while the mutex is held; Unlock of an unlocked
\* mutex is a fatal error of the runtime.
Lock(t, c) == mu[c] = NoTask /\ mu' = [mu EXCEPT ![c] = t]
Unlock(c) == mu' = [mu EXCEPT ![c] = NoTask]

\* ------------------------------------------------------------ calls
\* Task t is at statement p (and the process has not died).
At(t, p) == ~crashed /\ pc[t] = p
Goto(t, p) == pc' = [pc EXCEPT ![t] = p]
Call(t, target, cont) ==
    /\ pc' = [pc EXCEPT ![t] = target]
    /\ stack' = [stack EXCEPT ![t] = <<cont>> \o @]
\* A function returns to its caller; a task with no caller left has finished.
Return(t) ==
    IF stack[t] = <<>>
    THEN pc' = [pc EXCEPT ![t] = "done"] /\ UNCHANGED stack
    ELSE /\ pc' = [pc EXCEPT ![t] = Head(stack[t])]
         /\ stack' = [stack EXCEPT ![t] = Tail(@)]
\* A panic leaves the function; the callers' deferred calls run in Unwind.
Panic(t) ==
    /\ pc' = [pc EXCEPT ![t] = "unwind"]
    /\ panicking' = [panicking EXCEPT ![t] = TRUE]

IsInt(v) == v.kind = "int"

\* A map access outside the lock races with a SetState that is at its write:
\* the two are unordered, and the read can return anything.
Racing(t, c) == \E u \in Tasks \ {t} : comp[u] = c /\ pc[u] = "SetState_write"
MapRead(t, c, k) == IF Racing(t, c) THEN SetVals \cup {state[c][k]} ELSE {state[c][k]}

\* The runtime may instead detect the unsynchronised map access and end the
\* process ("fatal error: concurrent map read and map write").
MapFault(t) ==
    /\ ~crashed
    /\ pc[t] \in {"cb_counter_assert", "RC_store"}
    /\ Racing(t, comp[t])
    /\ crashed' = TRUE
    /\ UNCHANGED <<compVars, taskVars, routerVars, sseVars, req, resp>>

\* ---- Render (part_002:62-86)
\* A faulty variant: Render evaluates the template without taking the lock.
RenderNoLock(t, c) == UNCHANGED mu
RenderLock(t, c) == Lock(t, c)
Render_lock(t) ==
    /\ At(t, "Render_lock")
    /\ RenderLock(t, comp[t])
    /\ snap' = [snap EXCEPT ![t] = state[comp[t]]]
    /\ out' = [out EXCEPT ![t] = <<>>]
    /\ err' = [err EXCEPT ![t] = FALSE]
    /\ Goto(t, "Render_parse")
    /\ UNCHANGED <<rev, name, state, template, onUpdate, written, stack, comp, arg, loc,
                   panicking, routerVars, sseVars, runVars>>

\* template.Must(Parse): a malformed template panics.
Render_parse(t) ==
    /\ At(t, "Render_parse")
    /\ IF template[comp[t]].ok
       THEN Goto(t, "Render_exec") /\ UNCHANGED panicking
       ELSE /\ pc' = [pc EXCEPT ![t] = "Render_defer"]
            /\ panicking' = [panicking EXCEPT ![t] = TRUE]
    /\ UNCHANGED <<compVars, stack, comp, arg, loc, out, err, snap, routerVars, sseVars, runVars>>

\* What Render returns as markup when Execute has failed: "" (part_001:80-82,
\* part_002:80-82), or buf.String() with the error (part_000:37).
ExecuteFailed(partial) == IF rev = "part_000" THEN partial ELSE <<>>

\* tmpl.Execute: one placeholder at a time, each read from the state map; the
\* placeholder template.bad cannot be evaluated and Execute stops there with
\* an error.
Render_exec(t) ==
    /\ At(t, "Render_exec")
    /\ LET keys == template[comp[t]].keys
           i == Len(out[t]) + 1
       IN IF i <= Len(keys) /\ i = template[comp[t]].bad
          THEN /\ err' = [err EXCEPT ![t] = TRUE]
               /\ out' = [out EXCEPT ![t] = ExecuteFailed(@)]
               /\ Goto(t, "Render_defer")
          ELSE IF i <= Len(keys)
          THEN /\ \E v \in MapRead(t, comp[t], keys[i]) :
                     out' = [out EXCEPT ![t] = Append(@, v)]
               /\ UNCHANGED <<pc, err>>
          ELSE Goto(t, "Render_defer") /\ UNCHANGED <<out, err>>
    /\ UNCHANGED <<compVars, stack, comp, arg, loc, panicking, snap, routerVars, sseVars, runVars>>

\* The deferred Unlock, then the return (or the panic goes on to the caller).
Render_defer(t) ==
    /\ At(t, "Render_defer")
    /\ Unlock(comp[t])
    /\ IF panicking[t]
       THEN pc' = [pc EXCEPT ![t] = "unwind"] /\ UNCHANGED stack
       ELSE Return(t)
    /\ UNCHANGED <<rev, name, state, template, onUpdate, written, comp, arg, loc, out, err,
                   panicking, snap, routerVars, sseVars, runVars>>

\* ---- State (part_002:104-108): the live map is returned, not a copy.
StateLock(t, c) == Lock(t, c)
State_lock(t) ==
    /\ At(t, "State_lock")
    /\ StateLock(t, comp[t])
    /\ Goto(t, "State_ret")
    /\ UNCHANGED <<rev, name, state, template, onUpdate, written, stack, comp, arg, loc, out,
                   err, panicking, snap, routerVars, sseVars, runVars>>

State_ret(t) ==
    /\ At(t, "State_ret")
    /\ Unlock(comp[t])
    /\ Return(t)
    /\ UNCHANGED <<rev, name, state, template, onUpdate, written, comp, arg, loc, out, err,
                   panicking, snap, routerVars, sseVars, runVars>>

\* ---- SetState (part_002:113-117)
SetStateLock(t, c) == Lock(t, c)
SetState_lock(t) ==
    /\ At(t, "SetState_lock")
    /\ SetStateLock(t, comp[t])
    /\ Goto(t, "SetState_write")
    /\ UNCHANGED <<rev, name, state, template, onUpdate, written, stack, comp, arg, loc, out,
                   err, panicking, snap, routerVars, sseVars, runVars>>

\* A faulty variant: a key that already has a value keeps it.
MapWriteOnce(m, k, v) == IF m[k] = NilV THEN [m EXCEPT ![k] = v] ELSE m
\* c.state[key] = value (part_002:116)
MapWrite(m, k, v) == [m EXCEPT ![k] = v]

SetState_write(t) ==
    /\ At(t, "SetState_write")
    /\ state' = [state EXCEPT ![comp[t]] = MapWrite(@, arg[t].key, arg[t].val)]
    /\ written' = IF arg[t].key = "Count"
                  THEN [written EXCEPT ![comp[t]] = arg[t].val] ELSE written
    /\ Unlock(comp[t])
    /\ arg' = [arg EXCEPT ![t] = NoArg]
    /\ Return(t)
    /\ UNCHANGED <<rev, name, template, onUpdate, comp, loc, out, err,
                   panicking, snap, routerVars, sseVars, runVars>>

\* ---- Update: part_001:92-96 calls the callback bare; part_002:90-100
\* holds the component's lock around it, released by a deferred Unlock.
UpdateLock(t, c) == IF rev = "part_002" THEN Lock(t, c) ELSE UNCHANGED mu
UpdateUnlock(c) == IF rev = "part_002" THEN Unlock(c) ELSE UNCHANGED mu

Update_enter(t) ==
    /\ At(t, "Update_enter")
    /\ UpdateLock(t, comp[t])
    /\ Goto(t, "Update_call")
    /\ UNCHANGED <<rev, name, state, template, onUpdate, written, stack, comp, arg, loc, out,
                   err, panicking, snap, routerVars, sseVars, runVars>>

Update_call(t) ==
    /\ At(t, "Update_call")
    /\ IF onUpdate[comp[t]] = "nil"
       THEN Goto(t, "Update_defer") /\ UNCHANGED stack
       ELSE Call(t, "cb_" \o onUpdate[comp[t]], "Update_defer")
    /\ UNCHANGED <<compVars, comp, arg, loc, out, err, panicking, snap,
                   routerVars, sseVars, runVars>>

Update_defer(t) ==
    /\ At(t, "Update_defer")
    /\ UpdateUnlock(comp[t])
    /\ Return(t)
    /\ UNCHANGED <<rev, name, state, template, onUpdate, written, comp, arg, loc, out, err,
                   panicking, snap, routerVars, sseVars, runVars>>

\* ---- the counter callback (main.go:18-21)
\* currentCount := c.State()["Count"].(int)
cb_counter(t) ==
    /\ At(t, "cb_counter")
    /\ Call(t, "State_lock", "cb_counter_assert")
    /\ UNCHANGED <<compVars, comp, arg, loc, out, err, panicking, snap,
                   routerVars, sseVars, runVars>>

\* The entry is read from the returned map after State has unlocked; a value
\* that is not an int fails the type assertion.
cb_counter_assert(t) ==
    /\ At(t, "cb_counter_assert")
    /\ \E v \in MapRead(t, comp[t], "Count") :
          IF IsInt(v)
          THEN /\ loc' = [loc EXCEPT ![t] = v.n]
               /\ Goto(t, "cb_counter_set")
               /\ UNCHANGED panicking
          ELSE Panic(t) /\ UNCHANGED loc
    /\ UNCHANGED <<compVars, stack, comp, arg, out, err, snap, routerVars, sseVars, runVars>>

\* c.SetState("Count", currentCount+1), the callback's last statement.
cb_counter_set(t) ==
    /\ At(t, "cb_counter_set")
    /\ arg' = [arg EXCEPT ![t] = [NoArg EXCEPT !.key = "Count",
                                                !.val = IntV(loc[t] + 1)]]
    /\ Goto(t, "SetState_lock")
    /\ UNCHANGED <<compVars, stack, comp, loc, out, err, panicking, snap,
                   routerVars, sseVars, runVars>>

\* ---- a callback the application passes that panics before it touches the
\* state (onUpdate is any func(*Component, *core.Context), part_002:33)
cb_fault(t) ==
    /\ At(t, "cb_fault")
    /\ Panic(t)
    /\ UNCHANGED <<compVars, stack, comp, arg, loc, out, err, snap,
                   routerVars, sseVars, runVars>>

\* ------------------------------------------------------------ responses
\* http.ResponseWriter: the first WriteHeader sets the status, a later one
\* is ignored; a Write before any WriteHeader sends 200.
WriteHeader(r, code) == IF r.status = 0 THEN [r EXCEPT !.status = code] ELSE r
Write(r, b) == [WriteHeader(r, 200) EXCEPT !.body = Append(@, b)]
HttpError(r, msg, code) == Write(WriteHeader(r, code), msg)

\* ------------------------------------------------------------ handlers
\* UpdateComponent (handlers/handlers.go:12-50)
\* A faulty variant: the handler delegates to Update whatever the method.
UC_nocheck(t) ==
    /\ At(t, "UC_check")
    /\ Call(t, "Update_enter", "UC_ok")
    /\ UNCHANGED <<compVars, comp, arg, loc, out, err, panicking, snap,
                   routerVars, sseVars, req, resp, crashed>>

\* A faulty variant: the handler writes the success response before it
\* delegates to Update.
UC_check_early(t) ==
    /\ At(t, "UC_check")
    /\ IF req[t].method # "POST"
       THEN /\ resp' = [resp EXCEPT ![t] = HttpError(@, "Method not allowed", 405)]
            /\ Return(t)
       ELSE /\ resp' = [resp EXCEPT ![t] = Write(WriteHeader(@, 200), "OK")]
            /\ Call(t, "Update_enter", "UC_ok")
    /\ UNCHANGED <<compVars, comp, arg, loc, out, err, panicking, snap,
                   routerVars, sseVars, req, crashed>>

UC_check(t) ==
    /\ At(t, "UC_check")
    /\ IF req[t].method # "POST"
       THEN /\ resp' = [resp EXCEPT ![t] = HttpError(@, "Method not allowed", 405)]
            /\ Return(t)
       ELSE /\ Call(t, "Update_enter", "UC_ok")
            /\ UNCHANGED resp
    /\ UNCHANGED <<compVars, comp, arg, loc, out, err, panicking, snap,
                   routerVars, sseVars, req, crashed>>

UC_ok(t) ==
    /\ At(t, "UC_ok")
    /\ resp' = [resp EXCEPT ![t] = Write(WriteHeader(@, 200), "OK")]
    /\ Return(t)
    /\ UNCHANGED <<compVars, comp, arg, loc, out, err, panicking, snap,
                   routerVars, sseVars, req, crashed>>

\* A faulty variant (part_005:10-36): the handler defers no recover, and the
\* panic goes on to its caller.
Unwind_UC_norecover(t) ==
    /\ At(t, "unwind")
    /\ stack[t] # <<>> /\ Head(stack[t]) = "UC_ok"
    /\ stack' = [stack EXCEPT ![t] = Tail(@)]
    /\ UNCHANGED <<compVars, pc, comp, arg, loc, out, err, panicking, snap,
                   routerVars, sseVars, runVars>>

\* The deferred recover of UpdateComponent (handlers/handlers.go:24-30): the
\* panic stops here, a 500 is written and the handler returns.
Unwind_UC(t) ==
    /\ At(t, "unwind")
    /\ stack[t] # <<>> /\ Head(stack[t]) = "UC_ok"
    /\ panicking' = [panicking EXCEPT ![t] = FALSE]
    /\ resp' = [resp EXCEPT ![t] = Write(WriteHeader(@, 500), "Server error")]
    /\ IF Tail(stack[t]) = <<>>
       THEN pc' = [pc EXCEPT ![t] = "done"] /\ stack' = [stack EXCEPT ![t] = <<>>]
       ELSE /\ pc' = [pc EXCEPT ![t] = Head(Tail(stack[t]))]
            /\ stack' = [stack EXCEPT ![t] = Tail(Tail(@))]
    /\ UNCHANGED <<compVars, comp, arg, loc, out, err, snap, routerVars, sseVars,
                   req, crashed>>

\* A panic passing through Update runs its deferred Unlock (part_002:92).
Unwind_Update(t) ==
    /\ At(t, "unwind")
    /\ stack[t] # <<>> /\ Head(stack[t]) = "Update_defer"
    /\ UpdateUnlock(comp[t])
    /\ stack' = [stack EXCEPT ![t] = Tail(@)]
    /\ UNCHANGED <<rev, name, state, template, onUpdate, written, pc, comp, arg, loc, out,
                   err, panicking, snap, routerVars, sseVars, runVars>>

\* A faulty variant: ticker.Stop is not deferred, and a panic passing through
\* SSEHandler leaves the ticker running.
Unwind_SSE_running(t) ==
    /\ At(t, "unwind")
    /\ stack[t] # <<>> /\ Head(stack[t]) = "SSE_write"
    /\ stack' = [stack EXCEPT ![t] = Tail(@)]
    /\ UNCHANGED <<compVars, pc, comp, arg, loc, out, err, panicking, snap,
                   routerVars, sseVars, runVars>>

\* A panic passing through SSEHandler runs its deferred ticker.Stop
\* (part_003:42); the handler recovers nothing.
Unwind_SSE(t) ==
    /\ At(t, "unwind")
    /\ stack[t] # <<>> /\ Head(stack[t]) = "SSE_write"
    /\ ticker' = [ticker EXCEPT ![t] = "stopped"]
    /\ stops' = [stops EXCEPT ![t] = @ + 1]
    /\ stack' = [stack EXCEPT ![t] = Tail(@)]
    /\ UNCHANGED <<compVars, pc, comp, arg, loc, out, err, panicking, snap,
                   routerVars, cancelled, tickC, frames, flushed, fired,
                   lateTicks, lateFrames, quiet, runVars>>

\* A panic no function recovers: net/http recovers it for a request's task
\* and drops the connection; in any other goroutine it ends the process.
Unwind_top(t) ==
    /\ At(t, "unwind")
    /\ stack[t] = <<>>
    /\ IF req[t] # NoReq
       THEN /\ pc' = [pc EXCEPT ![t] = "aborted"]
            /\ panicking' = [panicking EXCEPT ![t] = FALSE]
            /\ UNCHANGED crashed
       ELSE crashed' = TRUE /\ UNCHANGED <<pc, panicking>>
    /\ UNCHANGED <<compVars, stack, comp, arg, loc, out, err, snap, routerVars, sseVars,
                   req, resp>>

\* ------------------------------------------------------------ dispatcher
\* RegisterComponent (core/core.go:100-108): under the dispatcher's lock,
\* c.State() and then the entry "name" of the returned map, asserted a string.
RC_lock(t) ==
    /\ At(t, "RC_lock")
    /\ sigmaMu = NoTask
    /\ sigmaMu' = t
    /\ registered' = [registered EXCEPT ![name[comp[t]]] = comp[t]]
    /\ Call(t, "State_lock", "RC_store")
    /\ UNCHANGED <<compVars, comp, arg, loc, out, err, panicking, snap, routes,
                   components, serving, regs, handled, replaced, invoked, ctxs, ctx,
                   sseVars, runVars>>

\* A faulty variant: a name that is already registered keeps its component.
RegistryKeep(comps, n, c) == IF comps[n] = NoComp THEN [comps EXCEPT ![n] = c] ELSE comps
\* s.components[key] = c (core/core.go:107)
RegistryPut(comps, n, c) == [comps EXCEPT ![n] = c]

RC_store(t) ==
    /\ At(t, "RC_store")
    /\ sigmaMu' = NoTask
    /\ \E v \in MapRead(t, comp[t], "name") :
          IF v.kind = "string"
          THEN /\ components' = RegistryPut(components, v.s, comp[t])
               /\ Return(t)
               /\ UNCHANGED panicking
          ELSE /\ Panic(t)
               /\ UNCHANGED <<components, stack>>
    /\ UNCHANGED <<compVars, comp, arg, loc, out, err, snap, routes, serving,
                   regs, handled, registered, replaced, invoked, ctxs, ctx, sseVars, runVars>>

\* Handle (core/core.go:79-97): under the lock, the method's map is made if
\* it is nil, then the handler is assigned to the path.
H_lock(t) ==
    /\ At(t, "H_lock")
    /\ sigmaMu = NoTask
    /\ sigmaMu' = t
    /\ handled' = [handled EXCEPT ![arg[t].method][arg[t].path] = arg[t].handler]
    /\ replaced' = (replaced \/ handled[arg[t].method][arg[t].path]
                                  \notin {NoHandler, arg[t].handler})
    /\ Goto(t, "H_assign")
    /\ UNCHANGED <<compVars, stack, comp, arg, loc, out, err, panicking, snap,
                   routes, components, serving, regs, registered, invoked, ctxs, ctx,
                   sseVars, runVars>>

\* A faulty variant: the method's map is made anew on every call.
HandleAssignFresh(r, method, path, handler) ==
    [r EXCEPT ![method] = [present |-> TRUE,
                           paths |-> [p \in Paths |-> IF p = path THEN handler
                                                      ELSE NoHandler]]]
HandleAssign(r, method, path, handler) ==
    LET made == IF r[method].present THEN r[method].paths
                ELSE [p \in Paths |-> NoHandler]
    IN [r EXCEPT ![method] = [present |-> TRUE,
                              paths |-> [made EXCEPT ![path] = handler]]]

H_assign(t) ==
    /\ At(t, "H_assign")
    /\ routes' = HandleAssign(routes, arg[t].method, arg[t].path, arg[t].handler)
    /\ sigmaMu' = NoTask
    /\ arg' = [arg EXCEPT ![t] = NoArg]
    /\ Return(t)
    /\ UNCHANGED <<compVars, comp, loc, out, err, panicking, snap,
                   components, serving, regs, handled, registered, replaced, invoked, ctxs, ctx,
                   sseVars, runVars>>

\* &Context{Req: r, Resp: w, Params: make(map[string]string)}
\* (core/core.go:134-138): the request and the response writer of task t and
\* a new, empty parameter map.
NoContext == [Req |-> NoReq, Resp |-> NoTask, Params |-> <<"nil">>]
NewContext(t) == [Req |-> req[t], Resp |-> t, Params |-> <<>>]

\* ServeHTTP (core/core.go:114-148): the method's routes, then the path's
\* handler, each read without the lock; a context; the handler is called,
\* ServeHTTP's last statement, so the handler returns to net/http.
\* A faulty variant: a method without routes is answered like a missing path.
SH_method_notfound(t) ==
    /\ At(t, "SH_method")
    /\ IF ~routes[req[t].method].present
       THEN /\ resp' = [resp EXCEPT ![t] = HttpError(@, "Not found", 404)]
            /\ Return(t)
       ELSE /\ Goto(t, "SH_path")
            /\ UNCHANGED <<resp, stack>>
    /\ UNCHANGED <<compVars, comp, arg, loc, out, err, panicking, snap,
                   routerVars, sseVars, req, crashed>>

SH_method(t) ==
    /\ At(t, "SH_method")
    /\ IF ~routes[req[t].method].present
       THEN /\ resp' = [resp EXCEPT ![t] = HttpError(@, "Method not allowed", 405)]
            /\ Return(t)
       ELSE /\ Goto(t, "SH_path")
            /\ UNCHANGED <<resp, stack>>
    /\ UNCHANGED <<compVars, comp, arg, loc, out, err, panicking, snap,
                   routerVars, sseVars, req, crashed>>

\* A faulty variant: a missing path is answered 404 and the request is then
\* handed to a default handler all the same.
SH_path_fallthrough(t) ==
    /\ At(t, "SH_path")
    /\ LET handler == routes[req[t].method].paths[req[t].path]
           found == IF handler = NoHandler THEN "h1" ELSE handler
       IN /\ resp' = [resp EXCEPT ![t] = IF handler = NoHandler
                                         THEN HttpError(@, "Not found", 404) ELSE @]
          /\ ctxs' = [ctxs EXCEPT ![t] = @ + 1]
          /\ ctx' = [ctx EXCEPT ![t] = NewContext(t)]
          /\ invoked' = [invoked EXCEPT ![t] = Append(@, found)]
          /\ Goto(t, "handler_" \o found)
          /\ UNCHANGED stack
    /\ UNCHANGED <<compVars, comp, arg, loc, out, err, panicking, snap, routes,
                   components, sigmaMu, serving, regs, handled, registered, replaced, sseVars,
                   req, crashed>>

SH_path(t) ==
    /\ At(t, "SH_path")
    /\ LET handler == routes[req[t].method].paths[req[t].path]
       IN IF handler = NoHandler
          THEN /\ resp' = [resp EXCEPT ![t] = HttpError(@, "Not found", 404)]
               /\ Return(t)
               /\ UNCHANGED <<ctxs, ctx, invoked>>
          ELSE /\ ctxs' = [ctxs EXCEPT ![t] = @ + 1]
               /\ ctx' = [ctx EXCEPT ![t] = NewContext(t)]
               /\ invoked' = [invoked EXCEPT ![t] = Append(@, handler)]
               /\ Goto(t, "handler_" \o handler)
               /\ UNCHANGED <<resp, stack>>
    /\ UNCHANGED <<compVars, comp, arg, loc, out, err, panicking, snap, routes,
                   components, sigmaMu, serving, regs, handled, registered, replaced, sseVars,
                   req, crashed>>

\* A page handler (main.go:25-52) reduced to its response: it writes a body.
PageHandler(t) ==
    /\ pc[t] \in {"handler_h1", "handler_h2"} /\ ~crashed
    /\ resp' = [resp EXCEPT ![t] = Write(@, pc[t])]
    /\ Return(t)
    /\ UNCHANGED <<compVars, comp, arg, loc, out, err, panicking, snap,
                   routerVars, sseVars, req, crashed>>

\* A lookup in s.routes while Handle assigns to it is an unsynchronised map
\* access: the runtime may detect it and end the process.
RouteFault(t) ==
    /\ ~crashed
    /\ pc[t] \in {"SH_method", "SH_path"}
    /\ \E u \in AllTasks \ {t} : pc[u] = "H_assign"
    /\ crashed' = TRUE
    /\ UNCHANGED <<compVars, taskVars, routerVars, sseVars, req, resp>>

\* http.ListenAndServe (main.go:57): the main goroutine serves from here on.
ListenAndServe ==
    /\ ~crashed
    /\ pc[Main] \in {"idle", "done"}
    /\ serving' = TRUE
    /\ regs' = 0
    /\ pc' = [pc EXCEPT ![Main] = "serving"]
    /\ UNCHANGED <<compVars, stack, comp, arg, loc, out, err, panicking, snap,
                   routes, components, sigmaMu, handled, registered, replaced, invoked, ctxs, ctx,
                   sseVars, runVars>>

\* ------------------------------------------------------------ push stream
\* SSEHandler (part_003:15-81).  The headers are set and the response must
\* be an http.Flusher, or the handler answers 500 and returns.
\* A faulty variant: the handler does not test for http.Flusher.
SSE_open_unchecked(t) ==
    /\ At(t, "SSE_open")
    /\ Goto(t, "SSE_arm")
    /\ UNCHANGED <<compVars, stack, comp, arg, loc, out, err, panicking, snap,
                   routerVars, sseVars, runVars>>

SSE_open(t) ==
    /\ At(t, "SSE_open")
    /\ IF ~resp[t].flusher
       THEN /\ resp' = [resp EXCEPT ![t] = HttpError(@, "Streaming not supported", 500)]
            /\ Return(t)
       ELSE /\ Goto(t, "SSE_arm")
            /\ UNCHANGED <<resp, stack>>
    /\ UNCHANGED <<compVars, comp, arg, loc, out, err, panicking, snap,
                   routerVars, sseVars, req, crashed>>

\* time.NewTicker, and the deferred ticker.Stop (part_003:39-42).
SSE_arm(t) ==
    /\ At(t, "SSE_arm")
    /\ ticker' = [ticker EXCEPT ![t] = "running"]
    /\ Goto(t, "SSE_select")
    /\ UNCHANGED <<compVars, stack, comp, arg, loc, out, err, panicking, snap,
                   routerVars, cancelled, tickC, stops, frames, flushed, fired,
                   lateTicks, lateFrames, quiet, runVars>>

\* select (part_003:50-57): a case that is ready is taken; when both are
\* ready the runtime picks either.
SSE_select_done(t) ==
    /\ At(t, "SSE_select")
    /\ cancelled[t]
    /\ Goto(t, "SSE_defer")
    /\ UNCHANGED <<compVars, stack, comp, arg, loc, out, err, panicking, snap,
                   routerVars, sseVars, runVars>>

SSE_select_tick(t) ==
    /\ At(t, "SSE_select")
    /\ tickC[t] > 0
    /\ tickC' = [tickC EXCEPT ![t] = @ - 1]
    /\ lateTicks' = [lateTicks EXCEPT ![t] = IF cancelled[t] THEN @ + 1 ELSE @]
    /\ Call(t, "Render_lock", "SSE_write")
    /\ UNCHANGED <<compVars, comp, arg, loc, out, err, panicking, snap,
                   routerVars, cancelled, ticker, stops, frames, flushed, fired,
                   lateFrames, quiet, runVars>>

\* One frame per tick: the markup, or the error (part_003:61-72).
ErrV == [kind |-> "error", n |-> 0, s |-> "Error"]
Frame(html, e) ==
    [prefix |-> "data: ", payload |-> IF e THEN <<ErrV>> ELSE html, end |-> "\n\n"]
SSE_write(t) ==
    /\ At(t, "SSE_write")
    /\ frames' = [frames EXCEPT ![t] = Append(@, Frame(out[t], err[t]))]
    /\ lateFrames' = [lateFrames EXCEPT ![t] = IF cancelled[t] THEN @ + 1 ELSE @]
    /\ resp' = [resp EXCEPT ![t] = WriteHeader(@, 200)]
    /\ Goto(t, "SSE_flush")
    /\ UNCHANGED <<compVars, stack, comp, arg, loc, out, err, panicking, snap,
                   routerVars, cancelled, tickC, ticker, stops, flushed, fired,
                   lateTicks, quiet, req, crashed>>

SSE_flush(t) ==
    /\ At(t, "SSE_flush")
    /\ flushed' = [flushed EXCEPT ![t] = Len(frames[t])]
    /\ Goto(t, "SSE_select")
    /\ UNCHANGED <<compVars, stack, comp, arg, loc, out, err, panicking, snap,
                   routerVars, cancelled, tickC, ticker, stops, frames, fired,
                   lateTicks, lateFrames, quiet, runVars>>

\* A faulty variant: the handler returns without stopping the ticker.
SSE_return_running(t) ==
    /\ At(t, "SSE_defer")
    /\ Return(t)
    /\ UNCHANGED <<compVars, comp, arg, loc, out, err, panicking, snap,
                   routerVars, sseVars, runVars>>

\* The deferred ticker.Stop on return.
SSE_defer(t) ==
    /\ At(t, "SSE_defer")
    /\ ticker' = [ticker EXCEPT ![t] = "stopped"]
    /\ stops' = [stops EXCEPT ![t] = @ + 1]
    /\ Return(t)
    /\ UNCHANGED <<compVars, comp, arg, loc, out, err, panicking, snap,
                   routerVars, cancelled, tickC, frames, flushed, fired,
                   lateTicks, lateFrames, quiet, runVars>>

\* The ticker sends on ticker.C, a channel of capacity 1, and drops the tick
\* if the channel is full.
Tick(t) ==
    /\ ~crashed
    /\ ticker[t] = "running"
    /\ fired[t] < MaxTicks
    /\ tickC[t] = 0
    /\ tickC' = [tickC EXCEPT ![t] = 1]
    /\ fired' = [fired EXCEPT ![t] = @ + 1]
    /\ quiet' = [quiet EXCEPT ![t] = FALSE]
    /\ UNCHANGED <<compVars, taskVars, routerVars, cancelled, ticker, stops,
                   frames, flushed, lateTicks, lateFrames, runVars>>

\* The client disconnects: the request's context is cancelled.  quiet
\* records that the loop was waiting in its select with no tick buffered.
Cancel(t) ==
    /\ ~crashed
    /\ pc[t] \notin {"idle", "done", "aborted"}
    /\ req[t].path = "/sse"
    /\ ~cancelled[t]
    /\ cancelled' = [cancelled EXCEPT ![t] = TRUE]
    /\ quiet' = [quiet EXCEPT ![t] = pc[t] = "SSE_select" /\ tickC[t] = 0]
    /\ UNCHANGED <<compVars, taskVars, routerVars, tickC, ticker, stops, frames,
                   flushed, fired, lateTicks, lateFrames, runVars>>

\* ------------------------------------------------------------ tasks
Finished == {"done", "aborted"}
\* Tasks are interchangeable: they start in the order of their numbers.
CanStart(t) == At(t, "idle") /\ \A u \in Tasks : u < t => pc[u] # "idle"
\* The main goroutine makes its calls one after the other.
MainCanStart ==
    /\ ~crashed /\ pc[Main] \in {"idle", "done"}
    /\ regs > 0

\* The arguments of a call are gone when it returns (H_assign, SetState_write).
\* Task t enters p with receiver c, arguments a, request r and response w.
Launch(t, c, p, a, r, w) ==
    /\ pc' = [pc EXCEPT ![t] = p]
    /\ comp' = [comp EXCEPT ![t] = c]
    /\ arg' = [arg EXCEPT ![t] = a]
    /\ req' = [req EXCEPT ![t] = r]
    /\ resp' = [resp EXCEPT ![t] = w]
    /\ UNCHANGED <<compVars, stack, loc, out, err, panicking, snap, routes,
                   components, sigmaMu, serving, handled, registered, replaced, invoked,
                   ctxs, ctx, sseVars, crashed>>

StartRender(t, c) ==
    /\ CanStart(t)
    /\ Launch(t, c, "Render_lock", NoArg, NoReq, NoResp)
    /\ UNCHANGED regs

StartSetState(t, c, k, v) ==
    /\ CanStart(t)
    /\ Launch(t, c, "SetState_lock", [NoArg EXCEPT !.key = k, !.val = v], NoReq, NoResp)
    /\ UNCHANGED regs

\* app.RegisterComponent(c), from task t
StartRegister(t, c) ==
    /\ IF t = Main THEN MainCanStart /\ regs' = regs - 1
                   ELSE CanStart(t) /\ UNCHANGED regs
    /\ Launch(t, c, "RC_lock", NoArg, NoReq, NoResp)

\* app.Handle(method, path, handler), from the main goroutine
StartHandle(m, p, h) ==
    /\ MainCanStart
    /\ Launch(Main, "cA", "H_lock",
              [NoArg EXCEPT !.method = m, !.path = p, !.handler = h], NoReq, NoResp)
    /\ regs' = regs - 1

\* app.Handle(method, path, handler) from task t while the server runs
StartHandleFrom(t, m, p, h) ==
    /\ CanStart(t)
    /\ serving
    /\ Launch(t, "cA", "H_lock",
              [NoArg EXCEPT !.method = m, !.path = p, !.handler = h], NoReq, NoResp)
    /\ UNCHANGED regs

\* app.RegisterComponent(c) from task t while the server runs
StartRegisterFrom(t, c) ==
    /\ serving
    /\ StartRegister(t, c)

\* A request of method m reaches the update handler bound to c.
StartUpdateRequest(t, c, m) ==
    /\ CanStart(t)
    /\ Launch(t, c, "UC_check", NoArg, [method |-> m, path |-> "/update"], NoResp)
    /\ UNCHANGED regs

\* net/http hands a request to ServeHTTP once the server listens.
StartDispatch(t, m, p) ==
    /\ CanStart(t)
    /\ serving
    /\ Launch(t, "cA", "SH_method", NoArg, [method |-> m, path |-> p], NoResp)
    /\ UNCHANGED regs

\* A GET reaches the push-stream handler bound to c; f: the response writer
\* is an http.Flusher.
StartSSE(t, c, f) ==
    /\ CanStart(t)
    /\ Launch(t, c, "SSE_open", NoArg, [method |-> "GET", path |-> "/sse"],
              [NoResp EXCEPT !.flusher = f])
    /\ UNCHANGED regs

\* ------------------------------------------------------------ Init
\* lit: the literal text in front of each placeholder, line by line.
CounterTemplate == [ok |-> TRUE, keys |-> <<"Count", "Count">>, bad |-> 0,
                    lit |-> <<"Count: ">>]
StatusTemplate == [ok |-> TRUE, keys |-> <<"name", "Count">>, bad |-> 0,
                   lit |-> <<" ">>]
\* `Count: {{.Count}}` (main.go:16): one placeholder.
SingleTemplate == [ok |-> TRUE, keys |-> <<"Count">>, bad |-> 0, lit |-> <<"Count: ">>]
\* `{{.Count`: template.Parse rejects it.
MalformedTemplate == [ok |-> FALSE, keys |-> <<"Count">>, bad |-> 0, lit |-> <<>>]
\* `{{.name}}{{.Count.Value}}`: it parses, and Execute fails at the second
\* placeholder, a field of a value that has none.
FailingTemplate == [ok |-> TRUE, keys |-> <<"name", "Count">>, bad |-> 2, lit |-> <<>>]
\* The todo list (main.go:77-83): the template text runs over several lines,
\* each placeholder on a line of its own; Count stands for the text of an item.
TodoTemplate == [ok |-> TRUE, keys |-> <<"Count">>, bad |-> 0,
                 lit |-> <<"<ul>", "\n", "<li>">>]
EmptyMap == [k \in Keys |-> NilV]

\* The components the applications construct (main.go:14-22).
Constructed ==
    [c \in Comps |->
        IF c = "cA"
        THEN NewComponent("counter", CounterTemplate,
                          [EmptyMap EXCEPT !["Count"] = IntV(0)], "counter")
        ELSE IF c = "cB"
        THEN NewComponent("status", StatusTemplate,
                          [EmptyMap EXCEPT !["Count"] = IntV(0)], "fault")
        ELSE IF c = "cC"
        THEN NewComponent("counter", StatusTemplate, EmptyMap, "nil")
        ELSE IF c = "cD"
        THEN NewComponent("status", MalformedTemplate,
                          [EmptyMap EXCEPT !["Count"] = IntV(0)], "nil")
        ELSE IF c = "cE"
        THEN NewComponent("status", FailingTemplate,
                          [EmptyMap EXCEPT !["Count"] = IntV(0)], "nil")
        ELSE IF c = "cG"
        THEN NewComponent("todo-list", TodoTemplate,
                          [EmptyMap EXCEPT !["Count"] = StrV("status")], "nil")
        ELSE NewComponent("counter", SingleTemplate,
                          [EmptyMap EXCEPT !["Count"] = IntV(0)], "counter")]

InitTasks ==
    /\ pc = [t \in AllTasks |-> "idle"]
    /\ stack = [t \in AllTasks |-> <<>>]
    /\ comp = [t \in AllTasks |-> "cA"]
    /\ arg = [t \in AllTasks |-> NoArg]
    /\ loc = [t \in AllTasks |-> 0]
    /\ out = [t \in AllTasks |-> <<>>]
    /\ err = [t \in AllTasks |-> FALSE]
    /\ panicking = [t \in AllTasks |-> FALSE]
    /\ snap = [t \in AllTasks |-> Constructed["cA"].state]
    /\ req = [t \in AllTasks |-> NoReq]
    /\ resp = [t \in AllTasks |-> NoResp]
    /\ crashed = FALSE

InitFields ==
    /\ name = [c \in Comps |-> Constructed[c].name]
    /\ state = [c \in Comps |-> Constructed[c].state]
    /\ template = [c \in Comps |-> Constructed[c].template]
    /\ onUpdate = [c \in Comps |-> Constructed[c].onUpdate]
    /\ written = [c \in Comps |-> Constructed[c].state["Count"]]
    /\ mu = [c \in Comps |-> NoTask]

InitComps == rev \in Revisions /\ InitFields

\* core.New (core/core.go:67-75): no route, no component.
InitRouter ==
    /\ routes = [m \in Methods |-> [present |-> FALSE,
                                    paths |-> [p \in Paths |-> NoHandler]]]
    /\ components = [n \in Names |-> NoComp]
    /\ sigmaMu = NoTask
    /\ serving = FALSE
    /\ regs = MaxRegs
    /\ handled = [m \in Methods |-> [p \in Paths |-> NoHandler]]
    /\ registered = [n \in Names |-> NoComp]
    /\ replaced = FALSE
    /\ invoked = [t \in AllTasks |-> <<>>]
    /\ ctxs = [t \in AllTasks |-> 0]
    /\ ctx = [t \in AllTasks |-> NoContext]

InitSSE ==
    /\ cancelled = [t \in AllTasks |-> FALSE]
    /\ tickC = [t \in AllTasks |-> 0]
    /\ ticker = [t \in AllTasks |-> "none"]
    /\ stops = [t \in AllTasks |-> 0]
    /\ frames = [t \in AllTasks |-> <<>>]
    /\ flushed = [t \in AllTasks |-> 0]
    /\ fired = [t \in AllTasks |-> 0]
    /\ lateTicks = [t \in AllTasks |-> 0]
    /\ lateFrames = [t \in AllTasks |-> 0]
    /\ quiet = [t \in AllTasks |-> FALSE]

Init == InitTasks /\ InitComps /\ InitRouter /\ InitSSE

\* ------------------------------------------------------------ specifications
\* Spec: API calls and update requests on the components, from concurrent tasks.
Next ==
    \E t \in Tasks :
        \/ \E c \in Apps : StartRender(t, c)
        \/ \E c \in Apps, k \in Keys, v \in SetVals : StartSetState(t, c, k, v)
        \/ \E c \in Apps : StartRegister(t, c)
        \/ \E c \in Apps, m \in UpdateMethods : StartUpdateRequest(t, c, m)
        \/ Render_lock(t) \/ Render_parse(t) \/ Render_exec(t) \/ Render_defer(t)
        \/ State_lock(t) \/ State_ret(t)
        \/ SetState_lock(t) \/ SetState_write(t)
        \/ Update_enter(t) \/ Update_call(t) \/ Update_defer(t)
        \/ cb_counter(t) \/ cb_counter_assert(t) \/ cb_counter_set(t) \/ cb_fault(t)
        \/ UC_check(t) \/ UC_ok(t)
        \/ Unwind_UC(t) \/ Unwind_Update(t) \/ Unwind_top(t)
        \/ RC_lock(t) \/ RC_store(t)
        \/ MapFault(t)

Spec == Init /\ [][Next]_vars

\* SpecRouter: the main goroutine registers routes, then serves; requests
\* are dispatched concurrently.
NextRouter ==
    \/ \E m \in Methods, p \in Paths, h \in HandlerIds : StartHandle(m, p, h)
    \/ H_lock(Main) \/ H_assign(Main)
    \/ ListenAndServe
    \/ \E t \in Tasks :
        \/ \E m \in Methods, p \in Paths : StartDispatch(t, m, p)
        \/ SH_method(t) \/ SH_path(t) \/ PageHandler(t)

SpecRouter == Init /\ [][NextRouter]_vars

\* SpecRegistry: components are registered, by the main goroutine and by
\* concurrent tasks.
NextRegistry ==
    \E t \in AllTasks :
        \/ \E c \in Registrable : StartRegister(t, c)
        \/ RC_lock(t) \/ State_lock(t) \/ State_ret(t) \/ RC_store(t)

SpecRegistry == Init /\ [][NextRegistry]_vars

\* SpecSSE: one push stream on a component (the counter, or one whose
\* template is malformed or fails in Execute), its ticker and its client, and
\* concurrent SetState calls on the counter from the other tasks.
NextSSE ==
    \/ \E c \in StreamComps, f \in BOOLEAN : StartSSE(1, c, f)
    \/ SSE_open(1) \/ SSE_arm(1) \/ SSE_select_done(1) \/ SSE_select_tick(1)
    \/ SSE_write(1) \/ SSE_flush(1) \/ SSE_defer(1)
    \/ Unwind_SSE(1) \/ Unwind_top(1)
    \/ Tick(1) \/ Cancel(1)
    \/ \E t \in Tasks :
        \/ \E v \in SetVals : StartSetState(t, "cA", "Count", v)
        \/ Render_lock(t) \/ Render_parse(t) \/ Render_exec(t) \/ Render_defer(t)
        \/ SetState_lock(t) \/ SetState_write(t)

SpecSSE == Init /\ [][NextSSE]_vars

\* SpecRuntime: the server runs; tasks register routes and components while
\* other tasks dispatch requests.
NextRuntime ==
    \/ ListenAndServe
    \/ \E t \in Tasks :
        \/ \E m \in Methods, p \in Paths, h \in HandlerIds : StartHandleFrom(t, m, p, h)
        \/ \E c \in Registrable : StartRegisterFrom(t, c)
        \/ \E m \in Methods, p \in Paths : StartDispatch(t, m, p)
        \/ H_lock(t) \/ H_assign(t)
        \/ RC_lock(t) \/ State_lock(t) \/ State_ret(t) \/ RC_store(t)
        \/ SH_method(t) \/ SH_path(t) \/ PageHandler(t)
        \/ RouteFault(t)

SpecRuntime == Init /\ [][NextRuntime]_vars

\* SpecRender: Render calls on the counter and on the components whose
\* template is malformed or fails in Execute, under every revision of
\* Render, and concurrent SetState calls.
InitRender == InitTasks /\ rev \in RenderRevisions /\ InitFields /\ InitRouter /\ InitSSE

NextRender ==
    \E t \in Tasks :
        \/ \E c \in RenderComps : StartRender(t, c)
        \/ \E c \in RenderComps, v \in SetVals : StartSetState(t, c, "Count", v)
        \/ Render_lock(t) \/ Render_parse(t) \/ Render_exec(t) \/ Render_defer(t)
        \/ SetState_lock(t) \/ SetState_write(t)
        \/ Unwind_top(t)

SpecRender == InitRender /\ [][NextRender]_vars

\* SpecContend: components are registered, by the main goroutine and by
\* concurrent tasks, while other tasks call SetState on the components.
NextContend ==
    \/ \E t \in AllTasks :
        \/ \E c \in Apps : StartRegister(t, c)
        \/ RC_lock(t) \/ State_lock(t) \/ State_ret(t) \/ RC_store(t)
        \/ MapFault(t) \/ Unwind_top(t)
    \/ \E t \in Tasks :
        \/ \E c \in Apps, v \in SetVals : StartSetState(t, c, "Count", v)
        \/ SetState_lock(t) \/ SetState_write(t)

SpecContend == Init /\ [][NextContend]_vars

\* SpecCounter: concurrent POST requests to the update handler of the
\* counter, and nothing else.
NextCounter ==
    \E t \in Tasks :
        \/ StartUpdateRequest(t, "cA", "POST")
        \/ UC_check(t) \/ UC_ok(t)
        \/ Update_enter(t) \/ Update_call(t) \/ Update_defer(t)
        \/ cb_counter(t) \/ cb_counter_assert(t) \/ cb_counter_set(t)
        \/ State_lock(t) \/ State_ret(t)
        \/ SetState_lock(t) \/ SetState_write(t)
        \/ Unwind_Update(t) \/ Unwind_UC(t)
        \/ MapFault(t)

SpecCounter == Init /\ [][NextCounter]_vars

\* SpecWire: one push stream on the counter or on the todo list, its ticker
\* and its client, and the other tasks setting the streamed text.
NextWire ==
    \/ \E c \in WireComps : StartSSE(1, c, TRUE)
    \/ SSE_open(1) \/ SSE_arm(1) \/ SSE_select_done(1) \/ SSE_select_tick(1)
    \/ SSE_write(1) \/ SSE_flush(1) \/ SSE_defer(1)
    \/ Tick(1) \/ Cancel(1)
    \/ \E t \in Tasks :
        \/ \E c \in WireComps, v \in WireVals : StartSetState(t, c, "Count", v)
        \/ Render_lock(t) \/ Render_parse(t) \/ Render_exec(t) \/ Render_defer(t)
        \/ SetState_lock(t) \/ SetState_write(t)

SpecWire == Init /\ [][NextWire]_vars

\* ------------------------------------------------------------ properties
RenderBody == {"Render_parse", "Render_exec", "Render_defer"}

\* C1: a Render evaluates the template against one whole state: from the
\* moment it holds the lock until it releases it the state map is the map it
\* found, and every placeholder written so far is that map's entry, so no
\* SetState takes effect in between.
RenderSeesWholeState ==
    \A t \in Tasks :
        pc[t] \in RenderBody =>
            /\ state[comp[t]] = snap[t]
            /\ \A i \in 1 .. Len(out[t]) :
                   out[t][i] = snap[t][template[comp[t]].keys[i]]

\* A Render has written its first placeholder while a SetState that would
\* change the state of the same component waits for the lock.
RenderWhileSetStateWaits ==
    \E t, u \in Tasks :
        /\ pc[t] = "Render_exec" /\ Len(out[t]) = 1
        /\ pc[u] = "SetState_lock" /\ comp[u] = comp[t]
        /\ arg[u].val # state[comp[t]][arg[u].key]

\* A push stream that has been opened on a response that can be flushed.
Stream(t) == req[t].path = "/sse" /\ resp[t].flusher

\* C2: when a push stream has ended, every tick its loop took has produced
\* exactly one frame, flushed; if all N ticks were processed before the
\* cancellation (none pending, none after), exactly N frames were written
\* and none after the cancellation; and the ticker was stopped exactly once.
FramesPerTick ==
    \A t \in Tasks :
        /\ stops[t] = IF ticker[t] = "stopped" THEN 1 ELSE 0
        /\ (Stream(t) /\ pc[t] = "done") =>
              /\ ticker[t] = "stopped"
              /\ Len(frames[t]) = fired[t] - tickC[t]
              /\ flushed[t] = Len(frames[t])
              /\ quiet[t] => Len(frames[t]) = fired[t] /\ lateFrames[t] = 0

\* Two ticks were processed, then the client went away: the stream has ended.
StreamEndedAfterTicks ==
    \E t \in Tasks :
        /\ Stream(t) /\ pc[t] = "done" /\ quiet[t]
        /\ fired[t] >= 2 /\ Len(frames[t]) = fired[t] /\ stops[t] = 1

\* C3: once the cancellation signal has fired, the loop takes no further
\* tick, even when one is pending as it selects.
CancelWins == \A t \in Tasks : lateTicks[t] = 0

\* The methods and pairs the application has registered.
MethodRegistered(m) == \E p \in Paths : handled[m][p] # NoHandler
PathRegistered(m, p) == handled[m][p] # NoHandler
HandlerBody == {"handler_h1", "handler_h2"}

\* C4: a dispatched request whose method has no route is answered 405, one
\* whose method has routes but not for its path is answered 404, and in
\* both cases no handler is invoked and no context is built.
NoRouteResponses ==
    \A t \in Tasks :
        (req[t] # NoReq /\ ~PathRegistered(req[t].method, req[t].path)) =>
            /\ invoked[t] = <<>> /\ ctxs[t] = 0 /\ pc[t] \notin HandlerBody
            /\ pc[t] = "done" =>
                  IF MethodRegistered(req[t].method)
                  THEN resp[t].status = 404 /\ resp[t].body = <<"Not found">>
                  ELSE resp[t].status = 405 /\ resp[t].body = <<"Method not allowed">>

\* One request was answered 405 and another 404.
BothRefusalsSeen ==
    \E t, u \in Tasks :
        /\ pc[t] = "done" /\ resp[t].status = 405 /\ ~MethodRegistered(req[t].method)
        /\ pc[u] = "done" /\ resp[u].status = 404 /\ MethodRegistered(req[u].method)

UpdateRequest(t) == req[t].path = "/update"

NonPostRejected ==
    \A t \in Tasks :
        (UpdateRequest(t) /\ req[t].method # "POST") =>
            /\ pc[t] \in {"UC_check", "done"}
            /\ stack[t] = <<>>
            /\ pc[t] = "done" =>
                  resp[t].status = 405 /\ resp[t].body = <<"Method not allowed">>

\* A PUT and a GET to the update handler have both been answered.
NonPostAnswered ==
    \E t, u \in Tasks :
        /\ UpdateRequest(t) /\ req[t].method = "PUT" /\ pc[t] = "done"
        /\ UpdateRequest(u) /\ req[u].method = "GET" /\ pc[u] = "done"
        /\ resp[t].status = 405 /\ resp[u].status = 405

\* C7: whenever no registration is in progress, the registry maps every
\* declared name to the component of the latest RegisterComponent call for
\* that name, and a name never registered to nothing.
RegistryLatestWins ==
    sigmaMu = NoTask =>
        \A n \in Names :
            /\ components[n] = registered[n]
            /\ components[n] # NoComp => name[components[n]] = n

\* Two components named "counter" were registered, cC last, and one named
\* "status": the registry holds cC and the other entry is as it was.
SameNameRegisteredTwice ==
    /\ sigmaMu = NoTask
    /\ pc[1] = "done" /\ comp[1] = "cA"
    /\ pc[2] = "done" /\ comp[2] = "cC"
    /\ pc[Main] = "done" /\ comp[Main] = "cB"
    /\ components["counter"] = "cC" /\ components["status"] = "cB"

\* C8: the route table holds for every pair exactly the handler of the
\* latest Handle call for it (a call in progress may still have to assign
\* its own pair, and changes no other), and a dispatch invokes that handler
\* and no other.
LatestHandlerWins ==
    /\ \A m \in Methods, p \in Paths :
           \/ pc[Main] = "H_assign" /\ arg[Main].method = m /\ arg[Main].path = p
           \/ routes[m].paths[p] = handled[m][p]
    /\ \A t \in Tasks :
           /\ invoked[t] # <<>> => invoked[t] = <<handled[req[t].method][req[t].path]>>
           /\ (pc[t] = "done" /\ req[t] # NoReq
                 /\ PathRegistered(req[t].method, req[t].path)) =>
                 /\ invoked[t] = <<handled[req[t].method][req[t].path]>>
                 /\ resp[t].body = <<"handler_" \o handled[req[t].method][req[t].path]>>

\* A pair was registered again with another handler, a second pair of the
\* same method kept its own, and a dispatch for the first invoked the later.
ReplacedHandlerInvoked ==
    /\ replaced
    /\ handled["GET"]["/"] = "h2" /\ handled["GET"]["/update"] = "h1"
    /\ \E t \in Tasks :
           /\ pc[t] = "done" /\ req[t] = [method |-> "GET", path |-> "/"]
           /\ invoked[t] = <<"h2">>

\* Task t is executing a method of its component.
InUpdate(t) ==
    \/ pc[t] \in {"Update_call", "Update_defer"}
    \/ \E i \in 1 .. Len(stack[t]) : stack[t][i] = "Update_defer"
InMethod(t) ==
    \/ pc[t] \in RenderBody \cup {"State_ret", "SetState_write"}
    \/ InUpdate(t)

\* C9: Render, Update, State and SetState exclude each other on a component:
\* while a task is in one of them (Update with its callback), no other task
\* is in any of them on the same component.
MethodsExclusive ==
    \A t, u \in Tasks :
        (t # u /\ comp[t] = comp[u]) => ~(InMethod(t) /\ InMethod(u))

\* Task t is about to access an entry of the map that State returned to it.
UsesReturnedMap(t) == pc[t] \in {"cb_counter_assert", "RC_store"}

\* C10: no access to an entry of the state map by a caller that got the map
\* from State overlaps a Render's evaluation or a SetState's write on the
\* same component.
StateAccessExclusive ==
    \A t, u \in Tasks :
        (t # u /\ comp[t] = comp[u] /\ UsesReturnedMap(t)) =>
            pc[u] \notin {"Render_exec", "SetState_write"}

\* C11: a render failure on a tick never ends the stream: whatever makes
\* Render fail, no panic passes through the push-stream handler, and the
\* handler is never aborted.
RenderFailureRecovered ==
    \A t \in Tasks :
        Stream(t) => ~panicking[t] /\ pc[t] \notin {"unwind", "aborted"}

\* Render can fail on the template of component c.
CanFail(c) == ~template[c].ok \/ template[c].bad > 0

\* C12: a Render whose template is malformed or cannot be substituted
\* returns an error to its caller, with empty markup and the lock released:
\* it never panics, a Render of such a template about to return has err set
\* and no markup, and a finished call holds no lock and, if it failed, has
\* returned no markup.
RenderFailsWithError ==
    \A t \in Tasks :
        /\ ~panicking[t]
        /\ (pc[t] = "Render_defer" /\ CanFail(comp[t])) =>
              err[t] /\ out[t] = <<>>
        /\ pc[t] = "done" =>
              /\ mu[comp[t]] # t
              /\ err[t] => out[t] = <<>>

\* C14: a Render of the one-placeholder template that has evaluated it
\* without error holds exactly the value of the latest SetState("Count", v)
\* that has returned (or the constructed value if there was none), and no
\* earlier value.
RenderShowsLatestCount ==
    \A t \in Tasks :
        (pc[t] = "Render_defer" /\ ~panicking[t] /\ ~err[t]
            /\ template[comp[t]] = SingleTemplate) =>
            out[t] = <<written[comp[t]]>>

\* SetState("Count", 1) has returned on the counter, whose Count was 0, and
\* a Render of the counter has then written 1.
RenderAfterSetState ==
    \E t, u \in Tasks :
        /\ pc[u] = "done" /\ comp[u] = "cF" /\ written["cF"] = IntV(1)
        /\ pc[t] = "Render_defer" /\ comp[t] = "cF" /\ out[t] = <<IntV(1)>>

\* C13: a push-stream request whose response writer cannot flush is answered
\* 500 at once: the handler creates no ticker, renders nothing, writes no
\* frame and calls nothing before it returns.
NoFlusherRefused ==
    \A t \in Tasks :
        (req[t].path = "/sse" /\ ~resp[t].flusher) =>
            /\ pc[t] \in {"SSE_open", "done"} /\ stack[t] = <<>>
            /\ ticker[t] = "none" /\ stops[t] = 0 /\ fired[t] = 0
            /\ frames[t] = <<>> /\ flushed[t] = 0 /\ out[t] = <<>>
            /\ pc[t] = "done" =>
                  /\ resp[t].status = 500
                  /\ resp[t].body = <<"Streaming not supported">>

\* A stream request without a flusher has been answered 500.
NoFlusherAnswered ==
    \E t \in Tasks :
        /\ req[t].path = "/sse" /\ ~resp[t].flusher
        /\ pc[t] = "done" /\ resp[t].status = 500 /\ ticker[t] = "none"

\* C15: every entry of the component registry has a key equal to the name
\* attribute of the component it maps to.
RegistryKeyIsName ==
    \A n \in Names :
        components[n] # NoComp => name[components[n]] = n

\* C19: an Update whose callback goes through State and SetState always
\* returns: inside Update, a task never waits for the lock of its component
\* while it holds that lock itself.
UpdateNeverWaitsOnItself ==
    \A t \in Tasks :
        (InUpdate(t) /\ pc[t] \in {"State_lock", "SetState_lock"}) =>
            mu[comp[t]] # t

\* Task t is reading the route table in ServeHTTP.
ReadsRoutes(t) == pc[t] \in {"SH_method", "SH_path"}

\* C16: registration while the server runs is safe: no dispatch reads the
\* route table while a Handle call is writing it.
DispatchExcludesRegistration ==
    \A t, u \in Tasks :
        ReadsRoutes(t) => pc[u] # "H_assign"

\* C17: once the cancellation signal of a push stream has fired, the handler
\* writes nothing more to the response, whatever the component is doing.
NoWriteAfterCancel == \A t \in Tasks : lateFrames[t] = 0

\* C18: a dispatched request gets exactly one of a 405, a 404, or one
\* invocation of the handler registered for its pair: at most one handler is
\* invoked and one context built per request, the context holds this
\* request, this response and an empty parameter map, and a finished
\* request has exactly one of the three outcomes.
OneOutcomePerDispatch ==
    \A t \in Tasks :
        req[t] # NoReq =>
            /\ Len(invoked[t]) <= 1 /\ ctxs[t] = Len(invoked[t])
            /\ ctx[t] = IF invoked[t] = <<>> THEN NoContext
                        ELSE [Req |-> req[t], Resp |-> t, Params |-> <<>>]
            /\ pc[t] = "done" =>
                  \/ /\ resp[t].status = 405 /\ invoked[t] = <<>>
                     /\ resp[t].body = <<"Method not allowed">>
                  \/ /\ resp[t].status = 404 /\ invoked[t] = <<>>
                     /\ resp[t].body = <<"Not found">>
                  \/ /\ resp[t].status = 200
                     /\ invoked[t] = <<handled[req[t].method][req[t].path]>>
                     /\ resp[t].body = <<"handler_" \o invoked[t][1]>>

\* Two requests have finished: one was answered 404 and reached no handler,
\* the other was handled once by its handler, with a context of its own.
MissAndHitSeen ==
    \E t, u \in Tasks :
        /\ pc[t] = "done" /\ resp[t].status = 404 /\ invoked[t] = <<>>
        /\ pc[u] = "done" /\ resp[u].status = 200 /\ Len(invoked[u]) = 1
        /\ ctx[u].Req = req[u] /\ ctx[u].Params = <<>>

\* An event frame as the handler formats it: the prefix, the markup or the
\* error message, two line terminators.
WholeFrame(f) ==
    /\ f.prefix = "data: " /\ f.end = "\n\n"
    /\ \/ f.payload = <<ErrV>>
       \/ \A i \in 1..Len(f.payload) : f.payload[i].kind \in {"int", "string", "nil"}

\* C20: every tick the push-stream loop has taken and is through with has
\* written exactly one frame; every frame is the prefix "data: ", the markup
\* or an error message, and two line terminators, so that the stream is a
\* sequence of whole frames; and whenever the loop waits for the next tick
\* or the cancellation, or has ended, every frame written has been flushed.
FrameWrittenPerTick ==
    \A t \in Tasks :
        Stream(t) =>
            /\ \A i \in 1..Len(frames[t]) : WholeFrame(frames[t][i])
            /\ flushed[t] <= Len(frames[t])
            /\ pc[t] \in {"SSE_select", "SSE_defer", "done", "aborted"} =>
                  /\ Len(frames[t]) = fired[t] - tickC[t]
                  /\ flushed[t] = Len(frames[t])

\* The states of a push-stream handler: Open until the ticker is armed,
\* Ticking while the loop runs (a panic on its way out included), Closed
\* once the handler has returned or was aborted.
StreamState(t) ==
    IF pc[t] \in {"SSE_open", "SSE_arm"} THEN "Open"
    ELSE IF pc[t] \in Finished THEN "Closed"
    ELSE "Ticking"
StateRank(s) == CASE s = "Open" -> 1 [] s = "Ticking" -> 2 [] s = "Closed" -> 3
StreamOf(t) == <<pc[t], stack[t], ticker[t], stops[t], frames[t], flushed[t], tickC[t]>>

\* C21: a push-stream handler only moves forward through Open, Ticking and
\* Closed, and nothing of a Closed stream changes any more; a ticker is
\* stopped at most once and only if it was armed, and when the handler has
\* ended, by the cancellation or by a panic of Render, a ticker that was
\* armed has been stopped exactly once and is no longer running.
TimerReleasedOnce ==
    /\ [](\A t \in Tasks :
            req[t].path = "/sse" =>
                /\ stops[t] <= 1
                /\ ticker[t] = "none" => stops[t] = 0
                /\ ticker[t] = "none" <=> StreamState(t) = "Open"
                                          \/ (pc[t] = "done" /\ ~resp[t].flusher)
                /\ StreamState(t) = "Closed" =>
                      /\ ticker[t] # "running"
                      /\ stops[t] = IF ticker[t] = "stopped" THEN 1 ELSE 0)
    /\ [][\A t \in Tasks :
            req[t].path = "/sse" =>
                /\ StateRank(StreamState(t)') >= StateRank(StreamState(t))
                /\ StreamState(t) = "Closed" => StreamOf(t)' = StreamOf(t)]_vars

\* A stream whose Render panicked on a tick has been aborted, and its ticker
\* was stopped once on the way out.
StreamAbortedTimerReleased ==
    \E t \in Tasks :
        /\ Stream(t) /\ pc[t] = "aborted"
        /\ fired[t] >= 1 /\ ticker[t] = "stopped" /\ stops[t] = 1

\* Task t waits for the lock of its component, which another task holds.
WaitsForComponent(t) ==
    /\ \/ pc[t] \in {"Render_lock", "State_lock", "SetState_lock"}
       \/ pc[t] = "Update_enter" /\ rev = "part_002"
    /\ mu[comp[t]] \notin {NoTask, t}
\* Task t waits for the dispatcher's lock, which another task holds.
WaitsForDispatcher(t) ==
    pc[t] \in {"RC_lock", "H_lock"} /\ sigmaMu \notin {NoTask, t}

\* C22: operations on different components do not wait for one another: a
\* task that registers a component never waits for the dispatcher's lock
\* while its holder waits, inside the registration of another component,
\* for that component's lock.
ComponentsIndependent ==
    \A t \in AllTasks :
        (pc[t] = "RC_lock" /\ WaitsForDispatcher(t)) =>
            ~(comp[sigmaMu] # comp[t] /\ WaitsForComponent(sigmaMu))

\* The update handler of task t has called Update, which has not returned.
UpdatePending(t) == \E i \in 1 .. Len(stack[t]) : stack[t][i] = "UC_ok"

\* C23: a request to the update handler gets one response: nothing is
\* written before Update has returned or panicked, at most one body is ever
\* written, and a finished request has exactly one of 405 "Method not
\* allowed" (its method is not POST), 200 "OK" or 500 "Server error" (its
\* method is POST), each written on a response that was still blank.
OneUpdateResponse ==
    \A t \in Tasks :
        UpdateRequest(t) =>
            /\ Len(resp[t].body) <= 1
            /\ (pc[t] \in {"UC_check", "UC_ok"} \/ UpdatePending(t)) => resp[t] = NoResp
            /\ pc[t] = "done" =>
                  \/ /\ req[t].method # "POST"
                     /\ resp[t] = HttpError(NoResp, "Method not allowed", 405)
                  \/ /\ req[t].method = "POST"
                     /\ resp[t] = [NoResp EXCEPT !.status = 200, !.body = <<"OK">>]
                  \/ /\ req[t].method = "POST"
                     /\ resp[t] = [NoResp EXCEPT !.status = 500,
                                                 !.body = <<"Server error">>]

\* Two POST requests to update handlers have finished: Update returned for
\* one, answered 200 "OK"; the callback of the other panicked, answered 500.
OkAndFaultAnswered ==
    \E t, u \in Tasks :
        /\ UpdateRequest(t) /\ pc[t] = "done" /\ resp[t].status = 200
        /\ resp[t].body = <<"OK">> /\ onUpdate[comp[t]] = "counter"
        /\ UpdateRequest(u) /\ pc[u] = "done" /\ resp[u].status = 500
        /\ Len(resp[u].body) = 1

\* The update requests on the counter that were answered 200 "OK".
Incremented == {t \in Tasks : pc[t] = "done" /\ comp[t] = "cA" /\ resp[t].status = 200}

\* C24: no increment of the counter is lost: when every update request that
\* was started has completed, Count is its initial value, 0, plus the number
\* of requests whose Update returned.
NoLostIncrement ==
    (~crashed /\ \A t \in Tasks : pc[t] \in {"idle", "done"}) =>
        state["cA"]["Count"] = IntV(Cardinality(Incremented))

\* ---- the stream as a client reads it.  A text is a sequence of pieces; the
\* line terminator is the piece "\n".
\* A value as the template prints it.
Text(v) ==
    IF v.kind = "int" THEN <<ToString(v.n)>>
    ELSE IF v.kind = "nil" THEN <<"">>
    ELSE IF v.kind = "error" THEN <<"Error: ", v.s>>
    ELSE IF v.s = TwoParagraphs THEN <<"two", "\n", "\n", "paragraphs">>
    ELSE <<v.s>>
\* The markup Execute writes: the literal text and the value, per placeholder.
RECURSIVE MarkupText(_, _)
MarkupText(tmpl, vals) ==
    IF vals = <<>> THEN <<>>
    ELSE tmpl.lit \o Text(vals[1]) \o MarkupText(tmpl, Tail(vals))
\* What a frame carries: the markup of the tick, or the error message.
PayloadText(tmpl, f) ==
    IF f.payload = <<ErrV>> THEN Text(ErrV) ELSE MarkupText(tmpl, f.payload)
\* fmt.Fprintf(c.Resp, "data: %s\n\n", html): the payload is written as it is.
FrameBytes(tmpl, f) == <<f.prefix>> \o PayloadText(tmpl, f) \o <<"\n", "\n">>
RECURSIVE StreamBytes(_, _)
StreamBytes(tmpl, fs) ==
    IF fs = <<>> THEN <<>>
    ELSE FrameBytes(tmpl, fs[1]) \o StreamBytes(tmpl, Tail(fs))
\* The consumer: the stream is cut at each empty line, and of each event the
\* text after "data: " is kept.
RECURSIVE SplitEvents(_, _)
SplitEvents(b, cur) ==
    IF b = <<>> THEN (IF cur = <<>> THEN <<>> ELSE <<cur>>)
    ELSE IF Len(b) >= 2 /\ b[1] = "\n" /\ b[2] = "\n"
    THEN <<cur>> \o SplitEvents(SubSeq(b, 3, Len(b)), <<>>)
    ELSE SplitEvents(Tail(b), Append(cur, b[1]))
EventData(ev) == IF ev # <<>> /\ ev[1] = "data: " THEN Tail(ev) ELSE ev
Received(tmpl, fs) ==
    LET evs == SplitEvents(StreamBytes(tmpl, fs), <<>>)
    IN [i \in 1 .. Len(evs) |-> EventData(evs[i])]

\* C25: the client of a push stream receives one event per tick, carrying
\* the markup rendered on that tick: no payload holds a line terminator, and
\* what the consumer recovers from the bytes written so far is, frame by
\* frame, the payload that was written.
ClientReceivesMarkup ==
    \A t \in Tasks :
        Stream(t) =>
            LET tmpl == template[comp[t]]
            IN /\ \A i \in 1 .. Len(frames[t]) :
                      \A j \in 1 .. Len(PayloadText(tmpl, frames[t][i])) :
                          PayloadText(tmpl, frames[t][i])[j] # "\n"
               /\ Received(tmpl, frames[t]) =
                      [i \in 1 .. Len(frames[t]) |-> PayloadText(tmpl, frames[t][i])]

====
